---- MODULE Spec2Model ----
(***************************************************************************)
(* Model of the ingestion pipeline of wiederstrom/jobscraper:              *)
(* JobManager.scrape_finn_jobs / scrape_nav_jobs over the Posting Store    *)
(* (jobs), the Irrelevant-URL Cache (irrelevant_jobs) and Sync State       *)
(* (sync_state), with the repositories the orchestrator calls.             *)
(***************************************************************************)
EXTENDS Integers, Sequences, FiniteSets, TLC

\* ---------------------------------------------------------------- bounds
NumUrls == 2
MaxItems == 2
MaxTime == 1

Urls == 1..NumUrls
Sources == {"FINN", "NAV"}
None == "None"
ETags == {"e1"}

\* A posting as an adapter returns it: its url and whether it carries a
\* description (job_data.get('description') is truthy).
Postings == [url : Urls, description : BOOLEAN]

RECURSIVE SeqsUpTo(_)
SeqsUpTo(n) ==
    IF n = 0 THEN {<<>>}
    ELSE LET shorter == SeqsUpTo(n - 1)
         IN  shorter \cup {Append(q, x) : q \in {t \in shorter : Len(t) = n - 1}, x \in Postings}

UpstreamLists == SeqsUpTo(MaxItems)

VARIABLES
    jobs,             \* table jobs: set of rows
    next_id,          \* jobs.id autoincrement
    irrelevant_jobs,  \* table irrelevant_jobs: rows (urls) in insertion order
    sync_state,       \* table sync_state: set of rows
    now,              \* datetime.now()
    settings,         \* anthropic client configured, enable_ai_filter, enable_summarization
    pc,               \* the run: position in scrape_finn_jobs / scrape_nav_jobs
    src,              \* the run: which source it is for
    last_etag,        \* the run: the token read from sync_state (scrape_nav_jobs)
    scraped_jobs,     \* the run: the list the adapter returned
    new_etag,         \* the run: the token the NAV adapter returned
    idx,              \* the run: index of the item being processed
    job_summary,      \* the run: job_data['summary'] of the item about to be created
    stats,            \* the run: the statistics dictionary
    fetch_result,     \* history: how the listing/feed request of the run ended
    sync_writes,      \* history: update_sync_state calls of the run
    outcome,          \* history: what happened to each item of the run
    ai_calls,         \* history: AIService calls of the run, <<method, item, result>>
    ai_replies,       \* history: what client.messages.create answered for the last item
    prev_run,         \* history: the run that completed before this one, if recorded
    nav_pc,           \* NAVScraper.scrape_all_keywords: position
    nav_all_jobs,     \* NAVScraper.scrape_all_keywords: all_jobs
    pages_processed,  \* NAVScraper.scrape_all_keywords: pages_processed
    current_feed,     \* NAVScraper.scrape_all_keywords: current_feed
    nav_jobs,         \* NAVScraper._process_feed_items: jobs
    item_i,           \* NAVScraper._process_feed_items: index of the item in items
    feed_requests,    \* history: fetch_feed calls of the fetch
    nav_item,         \* history: the feed item processed last, and what was done with it
    finn_pc,          \* FINNScraper.scrape_all_keywords: position
    finn_all_jobs,    \* FINNScraper.scrape_all_keywords: all_jobs
    unique_jobs,      \* FINNScraper.scrape_all_keywords: unique_jobs
    keyword_i,        \* FINNScraper.scrape_all_keywords: index of the keyword
    finn_jobs,        \* FINNScraper.search_jobs: jobs
    job_urls,         \* FINNScraper.search_jobs: job_urls
    url_i,            \* FINNScraper.search_jobs: index of the url in job_urls
    finn_item,        \* history: how the detail page fetched last ended
    upstream,         \* history: the last upstream event, and whether two requests met
    last_call         \* history: the last call made beside the runs, and what it found

vars == <<jobs, next_id, irrelevant_jobs, sync_state, now, settings, pc, src,
          last_etag, scraped_jobs, new_etag, idx, job_summary, stats,
          fetch_result, sync_writes, outcome, ai_calls, ai_replies, prev_run,
          nav_pc, nav_all_jobs, pages_processed, current_feed, nav_jobs, item_i,
          feed_requests, nav_item, finn_pc, finn_all_jobs, unique_jobs,
          keyword_i, finn_jobs, job_urls, url_i, finn_item, upstream, last_call>>

tables == <<jobs, next_id, irrelevant_jobs, sync_state>>
locals == <<pc, src, last_etag, scraped_jobs, new_etag, idx, job_summary, stats>>
history == <<fetch_result, sync_writes, outcome, ai_calls, ai_replies, prev_run,
             last_call>>
nav == <<nav_pc, nav_all_jobs, pages_processed, current_feed, nav_jobs, item_i,
         feed_requests, nav_item>>
finn == <<finn_pc, finn_all_jobs, unique_jobs, keyword_i, finn_jobs, job_urls,
          url_i, finn_item>>
scrapers == <<nav, finn, upstream>>
pipeline == <<tables, now, settings, locals, history>>

ZeroStats ==
    [jobs_scraped |-> 0, jobs_added |-> 0, jobs_filtered |-> 0,
     jobs_duplicate |-> 0, errors |-> 0]

\* ---------------------------------------------------------- repositories
\* A cache lookup that never finds the url.
IrrelevantJobRepository_exists_by_url_never(url) == FALSE

\* A check of the store that finds nothing.
JobRepository_exists_by_url_never(url) == FALSE

IrrelevantJobRepository_exists_by_url(url) ==
    \E i \in DOMAIN irrelevant_jobs : irrelevant_jobs[i] = url

JobRepository_exists_by_url(url) ==
    \E r \in jobs : r.url = url

\* A jobs table without the unique index on url.
UniqueViolation_no_index(url) == FALSE

\* jobs.url is declared unique: an INSERT of a url already stored fails.
UniqueViolation(url) ==
    \E r \in jobs : r.url = url

\* Optional values that are not strings: Nothing for Python's None, Some(v) else.
Nothing == {}
Some(v) == {v}
Get(o) == CHOOSE v \in o : TRUE

\* .first() of the query by source: Nothing, or Some(row).
SyncStateRepository_get_by_source(source) ==
    LET rows == {r \in sync_state : r.source = source}
    IN  IF rows = {} THEN Nothing ELSE Some(CHOOSE r \in rows : TRUE)

\* An update that inserts a row without looking for the one of the source, on
\* a table without its key.
SyncStateRepository_update_sync_state_inserting(source, last_sync, etag, jobs_added) ==
    sync_state \cup
         {[source |-> source,
           last_sync |-> IF last_sync # Nothing THEN Get(last_sync) ELSE now,
           last_etag |-> etag,
           jobs_added_last_run |-> IF jobs_added # Nothing THEN Get(jobs_added) ELSE 0]}

\* An update that leaves jobs_added_last_run of an existing row alone.
SyncStateRepository_update_sync_state_keeping_count(source, last_sync, etag, jobs_added) ==
    LET found == SyncStateRepository_get_by_source(source) IN
    IF found # Nothing
    THEN LET row == Get(found)
             r1 == IF last_sync # Nothing THEN [row EXCEPT !.last_sync = Get(last_sync)] ELSE row
             r2 == IF etag # None THEN [r1 EXCEPT !.last_etag = etag] ELSE r1
         IN  (sync_state \ {row}) \cup {r2}
    ELSE sync_state \cup
         {[source |-> source,
           last_sync |-> IF last_sync # Nothing THEN Get(last_sync) ELSE now,
           last_etag |-> etag,
           jobs_added_last_run |-> IF jobs_added # Nothing THEN Get(jobs_added) ELSE 0]}

\* update_sync_state(source, last_sync, last_etag=etag, jobs_added): the table
\* after the call. An argument of Nothing (None for the etag, a string) is one
\* the caller did not pass.
SyncStateRepository_update_sync_state(source, last_sync, etag, jobs_added) ==
    LET found == SyncStateRepository_get_by_source(source) IN
    IF found # Nothing
    THEN LET row == Get(found)
             r1 == IF last_sync # Nothing THEN [row EXCEPT !.last_sync = Get(last_sync)] ELSE row
             r2 == IF etag # None THEN [r1 EXCEPT !.last_etag = etag] ELSE r1
             r3 == IF jobs_added # Nothing
                   THEN [r2 EXCEPT !.jobs_added_last_run = Get(jobs_added)] ELSE r2
         IN  (sync_state \ {row}) \cup {r3}
    ELSE sync_state \cup
         {[source |-> source,
           last_sync |-> IF last_sync # Nothing THEN Get(last_sync) ELSE now,
           last_etag |-> etag,
           jobs_added_last_run |-> IF jobs_added # Nothing THEN Get(jobs_added) ELSE 0]}

\* ------------------------------------------------------------ AI service
AIService_is_enabled == settings.client

\* A filter that asks the enrichment service whatever enable_ai_filter says.
AIService_filter_job_ignoring_flag(response) ==
    IF ~settings.client THEN TRUE
    ELSE IF response = "error" THEN TRUE
    ELSE response = "JA"

\* filter_job's verdict for a response of the enrichment service
\* ("JA", "NEI", or "error" for any failure of the call).
AIService_filter_job(response) ==
    IF ~settings.client \/ ~settings.enable_ai_filter THEN TRUE
    ELSE IF response = "error" THEN TRUE
    ELSE response = "JA"

\* A summary that hands back a text when the call failed.
AIService_generate_summary_on_error_text(response) ==
    IF ~settings.client \/ ~settings.enable_summarization THEN None
    ELSE "text"

\* generate_summary's result for a response ("text" or "error").
AIService_generate_summary(response) ==
    IF ~settings.client \/ ~settings.enable_summarization THEN None
    ELSE IF response = "error" THEN None
    ELSE "text"

FilterResponses == {"JA", "NEI", "Kanskje", "error"}

\* Whether filter_job / generate_summary reach client.messages.create
\* (ai_service.py 48-50 and 67, 103-104 and 110-111 and 120).
AIService_filter_job_requests == settings.client /\ settings.enable_ai_filter
AIService_generate_summary_requests(description) ==
    settings.client /\ settings.enable_summarization /\ description

NoReplies == [filter_job |-> None, generate_summary |-> None]
NoCall == [op |-> "none"]
SummaryResponses == {"text", "error"}

\* --------------------------------------------------------------- adapters
RECURSIVE DedupByUrl(_, _)
DedupByUrl(list, seen_urls) ==
    IF list = <<>> THEN <<>>
    ELSE IF Head(list).url \in seen_urls
         THEN DedupByUrl(Tail(list), seen_urls)
         ELSE <<Head(list)>> \o DedupByUrl(Tail(list), seen_urls \cup {Head(list).url})

\* FINNScraper.scrape_all_keywords: every keyword's search, deduplicated by url.
\* A failed listing request leaves that search empty.
FINNScraper_scrape_all_keywords(result, all_jobs) ==
    IF result = "failed" THEN <<>> ELSE DedupByUrl(all_jobs, {})

\* An adapter that returns no token when the feed is not modified.
NAVScraper_scrape_all_keywords_dropping_token(result, all_jobs, etag) ==
    IF result = "failed" THEN <<(<<>>), None>>
    ELSE IF result = "not_modified" THEN <<(<<>>), None>>
    ELSE <<all_jobs, None>>

\* NAVScraper.scrape_all_keywords: <<jobs, new_etag>>.
NAVScraper_scrape_all_keywords(result, all_jobs, etag) ==
    IF result = "failed" THEN <<(<<>>), None>>
    ELSE IF result = "not_modified" THEN <<(<<>>), etag>>
    ELSE <<all_jobs, None>>

FetchResults(source) ==
    IF source = "FINN" THEN {"ok", "failed"}
    ELSE {"ok", "failed", "not_modified", "raise"}

\* JobManager.scrape_finn_jobs calls self.finn_scraper.fetch_job_details, which
\* FINNScraper does not define: the call raises AttributeError.
FetchJobDetailsRaises(source) == source = "FINN"

\* JobManager calls irrelevant_repo.add(url=..., reason=...), and
\* IrrelevantJobRepository.add takes url only: the call raises TypeError.
IrrelevantAddRaises == TRUE

\* ----------------------------------------------------- adapters, inside
\* settings.request_delay, settings.nav_municipal (dot-separated parts),
\* settings.nav_county; max_pages and limit of NAVScraper.scrape_all_keywords
\* (limit 0 is the None that JobManager leaves it at).
request_delay == 1
nav_municipal == <<"VESTLAND", "BERGEN">>
nav_county == "VESTLAND"
max_pages == 2
limit == 0

\* str.upper() on the names that occur.
Upper(str) == CASE str = "Bergen" -> "BERGEN"
                [] str = "Vestland" -> "VESTLAND"
                [] OTHER -> str
UpperParts(parts) == [i \in DOMAIN parts |-> Upper(parts[i])]

\* What the upstream can hold: a feed item (its _feed_entry, and how the
\* request for its feedentry ends), and a feed page (how many items, and
\* whether it has a next_id).
Municipals == {<<"Bergen">>, <<"VESTLAND", "BERGEN">>, <<"OSLO">>}
Counties == {"Vestland", "OSLO"}
EntryResults == {"match", "no_keyword", "failed", "malformed"}
FeedItems == [uuid : Urls, municipal : Municipals, county : Counties,
              status : {"ACTIVE", "INACTIVE"}, entry : EntryResults]
FeedPages == [items : 0..MaxItems, next_id : BOOLEAN]

\* A scraper with no location filter.
NAVScraper_filter_by_location_everywhere(item) == TRUE

\* NAVScraper.filter_by_location.
NAVScraper_filter_by_location(item) ==
    LET municipal == UpperParts(item.municipal)
        county == Upper(item.county)
        target_municipal == UpperParts(nav_municipal)
        target_county == Upper(nav_county)
        target_city == IF Len(target_municipal) > 1
                       THEN <<target_municipal[Len(target_municipal)]>>
                       ELSE target_municipal
    IN  municipal = target_city \/ municipal = target_municipal
        \/ county = target_county

\* The upstream events of a fetch: an HTTP request, and the sleep that
\* follows when request_delay > 0.
Request(u) == [last |-> "request", unspaced |-> u.unspaced \/ u.last = "request"]
Sleep(u) == IF request_delay > 0 THEN [u EXCEPT !.last = "sleep"] ELSE u

ScrapersIdle ==
    /\ nav_pc = "idle"
    /\ nav_all_jobs = <<>>
    /\ pages_processed = 0
    /\ current_feed = Nothing
    /\ nav_jobs = <<>>
    /\ item_i = 1
    /\ feed_requests = 0
    /\ nav_item = Nothing
    /\ finn_pc = "idle"
    /\ finn_all_jobs = <<>>
    /\ unique_jobs = <<>>
    /\ keyword_i = 1
    /\ finn_jobs = <<>>
    /\ job_urls = <<>>
    /\ url_i = 1
    /\ finn_item = None
    /\ upstream = [last |-> "none", unspaced |-> FALSE]

\* ------------------------------------------------------------------- Init
Init ==
    /\ jobs = {}
    /\ next_id = 1
    /\ irrelevant_jobs = <<>>
    /\ sync_state = {}
    /\ now = 0
    /\ settings \in [client : BOOLEAN, enable_ai_filter : BOOLEAN,
                     enable_summarization : BOOLEAN]
    /\ pc = "idle"
    /\ src = "FINN"
    /\ last_etag = None
    /\ scraped_jobs = <<>>
    /\ new_etag = None
    /\ idx = 1
    /\ job_summary = None
    /\ stats = ZeroStats
    /\ fetch_result = None
    /\ sync_writes = 0
    /\ outcome = <<>>
    /\ ai_calls = {}
    /\ ai_replies = NoReplies
    /\ prev_run = Nothing
    /\ last_call = NoCall
    /\ ScrapersIdle

\* ---------------------------------------------------------------- actions
\* A counting that leaves the duplicates out.
Bump_but_duplicates(st, counter) ==
    IF counter = "jobs_duplicate" THEN st ELSE [st EXCEPT ![counter] = @ + 1]

Bump(st, counter) == [st EXCEPT ![counter] = @ + 1]

\* A loop left after its first item.
LoopDone_after_first == idx > 1 \/ scraped_jobs = <<>>

LoopDone == idx > Len(scraped_jobs)

\* job_manager.py 54-59 / 158-170: read the cursor, ask the adapter.
RunFetch ==
    /\ pc = "idle"
    /\ \E source \in Sources, all_jobs \in UpstreamLists :
       \E result \in FetchResults(source) :
          LET found == SyncStateRepository_get_by_source(source)
              etag == IF source = "FINN" \/ found = Nothing THEN None
                      ELSE Get(found).last_etag
              fetched == IF source = "FINN"
                         THEN <<FINNScraper_scrape_all_keywords(result, all_jobs), None>>
                         ELSE NAVScraper_scrape_all_keywords(result, all_jobs, etag)
          IN  /\ (result # "ok" => all_jobs = <<>>)
              /\ src' = source
              /\ last_etag' = etag
              /\ fetch_result' = result
              /\ IF result = "raise"
                 THEN /\ pc' = "raised"
                      /\ UNCHANGED <<scraped_jobs, new_etag, stats>>
                 ELSE /\ pc' = "items"
                      /\ scraped_jobs' = fetched[1]
                      /\ new_etag' = fetched[2]
                      /\ stats' = [stats EXCEPT !.jobs_scraped = Len(fetched[1])]
    /\ UNCHANGED <<tables, now, settings, idx, job_summary, sync_writes, outcome,
                   ai_calls, ai_replies, prev_run,
                   last_call, scrapers>>

\* How the item at idx leaves the checks of job_manager.py 63-104 / 174-210
\* for the responses the enrichment service gives:
\* <<outcome, summary, calls, replies>>.
\* The outcome "create" is an item that goes on to job_repo.create.
ItemDecision(filter_response, summary_response) ==
    LET job_data == scraped_jobs[idx]
        is_relevant == AIService_filter_job(filter_response)
        summary == AIService_generate_summary(summary_response)
        filter_call == {<<"filter_job", idx, IF is_relevant THEN "accept" ELSE "reject">>}
        summary_call == {<<"generate_summary", idx, summary>>}
        filter_reply == IF AIService_filter_job_requests
                        THEN filter_response ELSE None
        filtered == [NoReplies EXCEPT !.filter_job = filter_reply]
        summarized == [filtered EXCEPT !.generate_summary =
                          IF AIService_generate_summary_requests(job_data.description)
                          THEN summary_response ELSE None]
    IN  IF IrrelevantJobRepository_exists_by_url(job_data.url)
        THEN <<"cached", None, {}, NoReplies>>
        ELSE IF JobRepository_exists_by_url(job_data.url)
        THEN <<"duplicate", None, {}, NoReplies>>
        ELSE IF FetchJobDetailsRaises(src)
        THEN <<"error_details", None, {}, NoReplies>>
        ELSE IF AIService_is_enabled /\ job_data.description
        THEN IF ~is_relevant
             THEN IF IrrelevantAddRaises
                  THEN <<"error_add", None, filter_call, filtered>>
                  ELSE <<"rejected", None, filter_call, filtered>>
             ELSE <<"create", summary, filter_call \cup summary_call, summarized>>
        ELSE <<"create", None, {}, NoReplies>>

\* An add that does not look for the url first, on a table without its key.
IrrelevantJobRepository_add_appending(url) == Append(irrelevant_jobs, url)

\* IrrelevantJobRepository.add(url): the table after the call.
IrrelevantJobRepository_add(url) ==
    IF IrrelevantJobRepository_exists_by_url(url)
    THEN irrelevant_jobs
    ELSE Append(irrelevant_jobs, url)

\* A handler that counts a caught exception as a filtered item.
CounterOf_error_as_filtered(o) ==
    IF o = "duplicate" THEN "jobs_duplicate" ELSE "jobs_filtered"

\* The counter an item that does not reach create is counted under.
CounterOf(o) ==
    CASE o = "cached" -> "jobs_filtered"
      [] o = "rejected" -> "jobs_filtered"
      [] o = "duplicate" -> "jobs_duplicate"
      [] OTHER -> "errors"

\* One pass of the for loop up to, and not including, job_repo.create.
ItemCheck ==
    /\ pc = "items"
    /\ ~LoopDone
    /\ \E filter_response \in FilterResponses, summary_response \in SummaryResponses :
          LET d == ItemDecision(filter_response, summary_response)
              url == scraped_jobs[idx].url
          IN  /\ ai_calls' = ai_calls \cup d[3]
              /\ ai_replies' = d[4]
              /\ IF d[1] = "create"
                 THEN /\ pc' = "create"
                      /\ job_summary' = d[2]
                      /\ UNCHANGED <<idx, stats, outcome, irrelevant_jobs>>
                 ELSE /\ stats' = Bump(stats, CounterOf(d[1]))
                      /\ outcome' = Append(outcome, d[1])
                      /\ idx' = idx + 1
                      /\ irrelevant_jobs' = IF d[1] = "rejected"
                                            THEN IrrelevantJobRepository_add(url)
                                            ELSE irrelevant_jobs
                      /\ UNCHANGED <<pc, job_summary>>
    /\ UNCHANGED <<jobs, next_id, sync_state, now, settings, src, last_etag,
                   scraped_jobs, new_etag, fetch_result, sync_writes, prev_run,
                   last_call, scrapers>>

\* The row a create makes of job_data: the user interaction columns take
\* their defaults (models.py 41-46).
Job(url, source, summary) ==
    [id |-> next_id, url |-> url, source |-> source, summary |-> summary,
     is_favorite |-> FALSE, applied |-> FALSE, applied_date |-> Nothing,
     scraped_date |-> now, last_checked |-> Nothing, status |-> "ACTIVE",
     expire_date |-> Nothing]

\* A create that swallows the failure of its commit.
JobRepository_create_swallowing(url, source, summary, db_error) ==
    IF db_error \/ (\E r \in jobs : r.url = url) THEN <<"added", jobs>>
    ELSE <<"added", jobs \cup {Job(url, source, summary)}>>

\* BaseRepository.create on jobs: <<result, table after the call>>. The commit
\* raises when the url is already stored (unique index) and may raise for any
\* other failure of the database (db_error).
JobRepository_create(url, source, summary, db_error) ==
    IF UniqueViolation(url) THEN <<"error_unique", jobs>>
    ELSE IF db_error THEN <<"error_db", jobs>>
    ELSE <<"added", jobs \cup {Job(url, source, summary)}>>

\* job_manager.py 106-114 / 212-220: job_repo.create(job_data).
ItemCreate ==
    /\ pc = "create"
    /\ \E db_error \in BOOLEAN :
          LET created == JobRepository_create(scraped_jobs[idx].url, src,
                                              job_summary, db_error)
          IN  /\ jobs' = created[2]
              /\ next_id' = IF created[1] = "added" THEN next_id + 1 ELSE next_id
              /\ stats' = Bump(stats, IF created[1] = "added" THEN "jobs_added"
                                      ELSE "errors")
              /\ outcome' = Append(outcome, created[1])
    /\ pc' = "items"
    /\ idx' = idx + 1
    /\ job_summary' = None
    /\ UNCHANGED <<irrelevant_jobs, sync_state, now, settings, src, last_etag,
                   scraped_jobs, new_etag, fetch_result, sync_writes, ai_calls,
                   ai_replies, prev_run,
                   last_call, scrapers>>

\* job_manager.py 116-125 / 222-232: after the loop, update_sync_state.
\* scrape_finn_jobs does not pass last_etag.
CommitSyncState ==
    /\ pc = "items"
    /\ LoopDone
    /\ sync_state' = SyncStateRepository_update_sync_state(
                         src, Some(now), IF src = "NAV" THEN new_etag ELSE None,
                         Some(stats.jobs_added))
    /\ sync_writes' = sync_writes + 1
    /\ pc' = "done"
    /\ UNCHANGED <<jobs, next_id, irrelevant_jobs, now, settings, src, last_etag,
                   scraped_jobs, new_etag, idx, job_summary, stats, fetch_result,
                   outcome, ai_calls, ai_replies, prev_run,
                   last_call, scrapers>>

\* The outcomes that are an exception caught at 111-114 / 217-220.
Errors == {"error_details", "error_add", "error_db", "error_unique"}

\* The run returns its statistics (135 / 242) or re-raises (133 / 240).
RunEnds ==
    /\ pc \in {"done", "raised"}
    /\ pc' = "idle"
    /\ src' = "FINN"
    /\ last_etag' = None
    /\ scraped_jobs' = <<>>
    /\ new_etag' = None
    /\ idx' = 1
    /\ job_summary' = None
    /\ stats' = ZeroStats
    /\ fetch_result' = None
    /\ sync_writes' = 0
    /\ outcome' = <<>>
    /\ ai_calls' = {}
    /\ ai_replies' = NoReplies
    /\ UNCHANGED <<tables, now, settings, last_call, scrapers>>

RunReturn ==
    /\ RunEnds
    /\ UNCHANGED prev_run

\* The same, remembering the run for the next one: its source, the list it
\* fetched, and the urls whose processing raised.
RunReturnRecorded ==
    /\ RunEnds
    /\ prev_run' = IF pc = "done"
                   THEN Some([source |-> src, list |-> scraped_jobs,
                              raised |-> {scraped_jobs[i].url : i \in
                                          {j \in DOMAIN outcome : outcome[j] \in Errors}}])
                   ELSE Nothing

\* The process dies in the middle of a run: what each create committed
\* (base.py 42) stays in the tables, the run's own state is lost, and the
\* open transaction holds nothing that was not committed.
Crash ==
    /\ pc \in {"items", "create"}
    /\ last_call' = [op |-> "crash",
                     added |-> {scraped_jobs[i].url : i \in
                                {j \in DOMAIN outcome : outcome[j] = "added"}},
                     sync_writes |-> sync_writes]
    /\ pc' = "idle"
    /\ src' = "FINN"
    /\ last_etag' = None
    /\ scraped_jobs' = <<>>
    /\ new_etag' = None
    /\ idx' = 1
    /\ job_summary' = None
    /\ stats' = ZeroStats
    /\ fetch_result' = None
    /\ sync_writes' = 0
    /\ outcome' = <<>>
    /\ ai_calls' = {}
    /\ ai_replies' = NoReplies
    /\ UNCHANGED <<tables, now, settings, prev_run, scrapers>>

\* job_repo.create of a run in another process (scripts/scrape_*.py beside the
\* scheduler), which passed its own checks before.
ConcurrentCreate(url, source) ==
    /\ LET created == JobRepository_create(url, source, None, FALSE)
       IN  /\ created[1] = "added"
           /\ jobs' = created[2]
           /\ next_id' = next_id + 1
    /\ UNCHANGED <<irrelevant_jobs, sync_state, now, settings, locals, history, scrapers>>

\* IrrelevantJobRepository.add / remove called directly (administration).
IrrelevantAdd(url) ==
    /\ irrelevant_jobs' = IrrelevantJobRepository_add(url)
    /\ irrelevant_jobs' # irrelevant_jobs
    /\ UNCHANGED <<jobs, next_id, sync_state, now, settings, locals, history, scrapers>>

\* IrrelevantJobRepository.add(url) called directly, present or not, with
\* what it found and the entry it returned.
IrrelevantAddRecorded(url) ==
    /\ irrelevant_jobs' = IrrelevantJobRepository_add(url)
    /\ last_call' = [op |-> "add", url |-> url,
                     existing |-> IrrelevantJobRepository_exists_by_url(url),
                     returned |-> irrelevant_jobs'[
                         CHOOSE i \in DOMAIN irrelevant_jobs' :
                            irrelevant_jobs'[i] = url /\
                            \A j \in DOMAIN irrelevant_jobs' :
                               irrelevant_jobs'[j] = url => i <= j]]
    /\ UNCHANGED <<jobs, next_id, sync_state, now, settings, locals, fetch_result,
                   sync_writes, outcome, ai_calls, ai_replies, prev_run, scrapers>>

\* IrrelevantJobRepository.add between runs, of a url that is not stored: how
\* a state with a filled cache that shares no url with the store comes about.
IrrelevantAddFresh(url) ==
    /\ pc = "idle"
    /\ ~JobRepository_exists_by_url(url)
    /\ IrrelevantAdd(url)

IrrelevantRemove(url) ==
    /\ IrrelevantJobRepository_exists_by_url(url)
    /\ irrelevant_jobs' = SelectSeq(irrelevant_jobs, LAMBDA u : u # url)
    /\ UNCHANGED <<jobs, next_id, sync_state, now, settings, locals, history, scrapers>>

\* SyncStateRepository.record_scrape_result(source, jobs_added, etag=etag),
\* called between runs: nothing but a run writes sync_state while it runs.
RecordScrapeResult(source, jobs_added, etag) ==
    /\ pc = "idle"
    /\ sync_state' = SyncStateRepository_update_sync_state(
                         source, Some(now), etag, Some(jobs_added))
    /\ sync_state' # sync_state
    /\ UNCHANGED <<jobs, next_id, irrelevant_jobs, now, settings, locals, history, scrapers>>

\* The arguments a caller may pass to update_sync_state.
OptionalTimes == {Nothing} \cup {Some(t) : t \in 0..MaxTime}
OptionalETags == {None} \cup ETags
OptionalCounts == {Nothing, Some(0), Some(1)}

\* SyncStateRepository.update_sync_state called directly, between runs.
UpdateSyncState(source, last_sync, etag, jobs_added) ==
    /\ pc = "idle"
    /\ sync_state' = SyncStateRepository_update_sync_state(
                         source, last_sync, etag, jobs_added)
    /\ UNCHANGED <<jobs, next_id, irrelevant_jobs, now, settings, locals, history, scrapers>>

\* An update that leaves applied_date alone when applied is set to false.
JobRepository_update_job_metadata_keeping_date(job_id, is_favorite, applied) ==
    {IF r.id # job_id THEN r
     ELSE LET r1 == IF is_favorite # Nothing
                    THEN [r EXCEPT !.is_favorite = Get(is_favorite)] ELSE r
          IN  IF applied = Nothing THEN r1
              ELSE IF Get(applied)
                   THEN [r1 EXCEPT !.applied = TRUE, !.applied_date = Some(now)]
                   ELSE [r1 EXCEPT !.applied = FALSE]
     : r \in jobs}

\* JobRepository.update_job_metadata(job_id, is_favorite, applied): the table
\* after the call. An argument of Nothing is one the caller did not pass; a
\* job_id that is not stored changes nothing.
JobRepository_update_job_metadata(job_id, is_favorite, applied) ==
    {IF r.id # job_id THEN r
     ELSE LET r1 == IF is_favorite # Nothing
                    THEN [r EXCEPT !.is_favorite = Get(is_favorite)] ELSE r
          IN  IF applied = Nothing THEN r1
              ELSE IF Get(applied)
                   THEN [r1 EXCEPT !.applied = TRUE, !.applied_date = Some(now)]
                   ELSE [r1 EXCEPT !.applied = FALSE, !.applied_date = Nothing]
     : r \in jobs}

OptionalBool == {Nothing, Some(TRUE), Some(FALSE)}

\* PATCH /jobs/{job_id} (endpoints/jobs.py 110-116), between or during runs.
UpdateJobMetadata ==
    /\ \E job_id \in 1..NumUrls, is_favorite \in OptionalBool, applied \in OptionalBool :
          jobs' = JobRepository_update_job_metadata(job_id, is_favorite, applied)
    /\ jobs' # jobs
    /\ UNCHANGED <<next_id, irrelevant_jobs, sync_state, now, settings, locals,
                   history, scrapers>>

\* Time passes.
Tick ==
    /\ now < MaxTime
    /\ now' = now + 1
    /\ UNCHANGED <<tables, settings, locals, history, scrapers>>

\* ------------------------------------------------- status of the postings
\* A marking that also brings an inactive posting back.
JobRepository_mark_as_inactive_toggling(job_ids) ==
    {IF r.id \in job_ids
     THEN [r EXCEPT !.status = IF r.status = "ACTIVE" THEN "INACTIVE" ELSE "ACTIVE"]
     ELSE r : r \in jobs}

\* JobRepository.mark_as_inactive(job_ids): the table after the update.
JobRepository_mark_as_inactive(job_ids) ==
    {IF r.id \in job_ids THEN [r EXCEPT !.status = "INACTIVE"] ELSE r : r \in jobs}

\* JobRepository.mark_as_inactive called directly.
MarkAsInactive ==
    /\ \E job_ids \in SUBSET (1..NumUrls) :
          jobs' = JobRepository_mark_as_inactive(job_ids)
    /\ jobs' # jobs
    /\ UNCHANGED <<next_id, irrelevant_jobs, sync_state, now, settings, locals,
                   history, scrapers>>

\* The values of days_threshold, in the unit of now.
DaysThresholds == 0..1

\* The query of cleanup_inactive_jobs: last_checked < cutoff_date and status
\* ACTIVE. A comparison with a NULL last_checked is not true in SQL.
StaleJobs(cutoff_date) ==
    {r \in jobs : /\ r.last_checked # Nothing
                  /\ Get(r.last_checked) < cutoff_date
                  /\ r.status = "ACTIVE"}

\* JobManager.cleanup_inactive_jobs(days_threshold): the table after the call.
JobManager_cleanup_inactive_jobs(days_threshold) ==
    LET cutoff_date == now - days_threshold
        job_ids == {r.id : r \in StaleJobs(cutoff_date)}
    IN  JobRepository_mark_as_inactive(job_ids)

\* The scheduler's cleanup job, or cleanup_inactive_jobs called directly.
CleanupInactiveJobs ==
    \E days_threshold \in DaysThresholds :
       /\ jobs' = JobManager_cleanup_inactive_jobs(days_threshold)
       /\ last_call' = [op |-> "cleanup_inactive_jobs",
                        days_threshold |-> days_threshold, at |-> now,
                        count |-> Cardinality(StaleJobs(now - days_threshold))]
       /\ UNCHANGED <<next_id, irrelevant_jobs, sync_state, now, settings, locals,
                      fetch_result, sync_writes, outcome, ai_calls, ai_replies,
                      prev_run, scrapers>>

\* The values a caller of the repository gives last_checked and expire_date:
\* none, a time before the clock of the model started, a time it never reaches.
Timestamps == {Nothing, Some(-1), Some(MaxTime + 1)}

\* JobRepository.bulk_create(jobs_data) with one posting, between runs: the
\* row takes the columns the caller passes.
BulkCreate ==
    /\ pc = "idle"
    /\ \E url \in Urls, source \in Sources, last_checked \in Timestamps,
          expire_date \in Timestamps :
          /\ ~UniqueViolation(url)
          /\ jobs' = jobs \cup {[Job(url, source, None) EXCEPT
                                    !.last_checked = last_checked,
                                    !.expire_date = expire_date]}
    /\ next_id' = next_id + 1
    /\ UNCHANGED <<irrelevant_jobs, sync_state, now, settings, locals, history,
                   scrapers>>

\* ------------------------------------------- NAVScraper.scrape_all_keywords
\* The while condition of nav_scraper.py 317.
NAVWhile == current_feed # Nothing /\ pages_processed < max_pages

\* nav_scraper.py 289-315: the first fetch_feed.
NavFetchFirst ==
    /\ nav_pc = "idle" /\ finn_pc = "idle"
    /\ \E result \in {"ok", "failed", "not_modified"}, page \in FeedPages :
          /\ result # "ok" => page = [items |-> 0, next_id |-> FALSE]
          /\ nav_pc' = IF result = "ok" THEN "page" ELSE "returned"
          /\ current_feed' = IF result = "ok" THEN Some(page) ELSE Nothing
    /\ upstream' = Request(upstream)
    /\ feed_requests' = feed_requests + 1
    /\ UNCHANGED <<nav_all_jobs, pages_processed, nav_jobs, item_i, nav_item,
                   finn, pipeline>>

\* NAVScraper.parse_job: the posting made of a feed item and its entry.
NAVScraper_parse_job(item) == [url |-> item.uuid, description |-> TRUE]

\* nav_scraper.py 369-406: one pass of the for loop of _process_feed_items.
\* An entry whose ad_content or title is null makes filter_by_keywords raise
\* (nav_scraper.py 183-185), outside any try.
NavItem ==
    /\ nav_pc = "page" /\ NAVWhile
    /\ item_i <= Get(current_feed).items
    /\ \E item \in FeedItems :
          LET skipped == ~NAVScraper_filter_by_location(item) \/ item.status # "ACTIVE"
              appended == ~skipped /\ item.entry = "match"
              jobs_after == IF appended
                            THEN Append(nav_jobs, NAVScraper_parse_job(item))
                            ELSE nav_jobs
              break == appended /\ limit # 0
                       /\ Len(nav_all_jobs) + Len(jobs_after) >= limit
          IN  /\ nav_item' = Some([item |-> item, requested |-> ~skipped,
                                   appended |-> appended])
              /\ nav_jobs' = jobs_after
              /\ upstream' = IF skipped THEN upstream
                             ELSE IF appended /\ ~break THEN Sleep(Request(upstream))
                             ELSE Request(upstream)
              /\ nav_pc' = IF ~skipped /\ item.entry = "malformed"
                           THEN "raised" ELSE "page"
              /\ item_i' = IF break THEN Get(current_feed).items + 1 ELSE item_i + 1
    /\ UNCHANGED <<nav_all_jobs, pages_processed, current_feed, feed_requests,
                   finn, pipeline>>

\* nav_scraper.py 322-340: the page is done; extend all_jobs, follow next_id.
NavPageEnd ==
    /\ nav_pc = "page" /\ NAVWhile
    /\ item_i > Get(current_feed).items
    /\ nav_all_jobs' = nav_all_jobs \o nav_jobs
    /\ nav_jobs' = <<>>
    /\ item_i' = 1
    /\ IF (limit # 0 /\ Len(nav_all_jobs') >= limit) \/ ~Get(current_feed).next_id
       THEN /\ nav_pc' = "returned"
            /\ UNCHANGED <<pages_processed, current_feed, feed_requests, upstream>>
       ELSE /\ pages_processed' = pages_processed + 1
            /\ \E result \in {"ok", "failed"}, page \in FeedPages :
                  /\ result # "ok" => page = [items |-> 0, next_id |-> FALSE]
                  /\ current_feed' = IF result = "ok" THEN Some(page) ELSE Nothing
            /\ feed_requests' = feed_requests + 1
            /\ upstream' = Sleep(Request(upstream))
            /\ nav_pc' = "page"
    /\ UNCHANGED <<nav_item, finn, pipeline>>

\* nav_scraper.py 317, 342-343: the while loop ends, the list is returned.
NavLoopExit ==
    /\ nav_pc = "page" /\ ~NAVWhile
    /\ nav_pc' = "returned"
    /\ UNCHANGED <<nav_all_jobs, pages_processed, current_feed, nav_jobs, item_i,
                   feed_requests, nav_item, finn, upstream, pipeline>>

\* ------------------------------------------ FINNScraper.scrape_all_keywords
\* The keywords searched (settings.get_keywords()), settings.max_jobs_per_keyword.
NumKeywords == 2
max_jobs_per_keyword == 100

UrlLists == UNION {[1..n -> Urls] : n \in 0..MaxItems}
UrlsOf(list) == {list[i] : i \in DOMAIN list}
Min(a, b) == IF a < b THEN a ELSE b

\* list(set(job_urls))[:limit], for one order the set may come in.
FINNScraper_job_urls(order) == SubSeq(order, 1, Min(Len(order), max_jobs_per_keyword))

\* finn_scraper.py 215-222.
FinnStart ==
    /\ finn_pc = "idle" /\ nav_pc = "idle"
    /\ finn_pc' = "search"
    /\ UNCHANGED <<finn_all_jobs, unique_jobs, keyword_i, finn_jobs, job_urls,
                   url_i, finn_item, nav, upstream, pipeline>>

\* finn_scraper.py 224-225, 47-81: search_jobs asks for the listing of the
\* keyword. A failed request ends the search with no job (101-106); back in
\* scrape_all_keywords the sleep of 229-231 follows.
FinnSearch ==
    /\ finn_pc = "search" /\ keyword_i <= NumKeywords
    /\ \E result \in {"ok", "failed"}, hrefs \in UrlLists, order \in UrlLists :
          /\ result # "ok" => hrefs = <<>>
          /\ UrlsOf(order) = UrlsOf(hrefs)
          /\ Cardinality(UrlsOf(order)) = Len(order)
          /\ IF result = "ok"
             THEN /\ job_urls' = FINNScraper_job_urls(order)
                  /\ finn_pc' = "details"
                  /\ upstream' = Request(upstream)
                  /\ UNCHANGED keyword_i
             ELSE /\ job_urls' = <<>>
                  /\ finn_pc' = "search"
                  /\ upstream' = Sleep(Request(upstream))
                  /\ keyword_i' = keyword_i + 1
    /\ finn_jobs' = <<>>
    /\ url_i' = 1
    /\ UNCHANGED <<finn_all_jobs, unique_jobs, finn_item, nav, pipeline>>

\* finn_scraper.py 84-97: one detail page. _fetch_and_parse_job returns the
\* job, or None for any failure of the request or the parse (108-202).
FinnDetail ==
    /\ finn_pc = "details" /\ url_i <= Len(job_urls)
    /\ \E result \in {"job", "none"}, description \in BOOLEAN :
          /\ result = "none" => ~description
          /\ finn_item' = result
          /\ finn_jobs' = IF result = "job"
                          THEN Append(finn_jobs, [url |-> job_urls[url_i],
                                                  description |-> description])
                          ELSE finn_jobs
    /\ upstream' = Sleep(Request(upstream))
    /\ url_i' = url_i + 1
    /\ UNCHANGED <<finn_pc, finn_all_jobs, unique_jobs, keyword_i, job_urls, nav,
                   pipeline>>

\* finn_scraper.py 99-106, 226-231: the search returns, all_jobs is extended.
FinnSearchEnd ==
    /\ finn_pc = "details" /\ url_i > Len(job_urls)
    /\ finn_all_jobs' = finn_all_jobs \o finn_jobs
    /\ finn_jobs' = <<>>
    /\ keyword_i' = keyword_i + 1
    /\ finn_pc' = "search"
    /\ upstream' = Sleep(upstream)
    /\ UNCHANGED <<unique_jobs, job_urls, url_i, finn_item, nav, pipeline>>

\* finn_scraper.py 233-242: deduplicate by url and return.
FinnReturn ==
    /\ finn_pc = "search" /\ keyword_i > NumKeywords
    /\ unique_jobs' = DedupByUrl(finn_all_jobs, {})
    /\ finn_pc' = "returned"
    /\ UNCHANGED <<finn_all_jobs, keyword_i, finn_jobs, job_urls, url_i, finn_item,
                   nav, upstream, pipeline>>

\* The caller has the list (or the exception); the scraper is idle again.
ScraperReturns ==
    /\ nav_pc \in {"returned", "raised"} \/ finn_pc = "returned"
    /\ nav_pc' = "idle"
    /\ nav_all_jobs' = <<>>
    /\ pages_processed' = 0
    /\ current_feed' = Nothing
    /\ nav_jobs' = <<>>
    /\ item_i' = 1
    /\ feed_requests' = 0
    /\ nav_item' = Nothing
    /\ finn_pc' = "idle"
    /\ finn_all_jobs' = <<>>
    /\ unique_jobs' = <<>>
    /\ keyword_i' = 1
    /\ finn_jobs' = <<>>
    /\ job_urls' = <<>>
    /\ url_i' = 1
    /\ finn_item' = None
    /\ upstream' = [last |-> "none", unspaced |-> FALSE]
    /\ UNCHANGED pipeline

\* The pipeline with the store and the cache changing under it.
Next ==
    \/ RunFetch
    \/ ItemCheck
    \/ ItemCreate
    \/ CommitSyncState
    \/ RunReturn
    \/ \E url \in Urls, source \in Sources : ConcurrentCreate(url, source)
    \/ \E url \in Urls : IrrelevantAdd(url)
    \/ \E url \in Urls : IrrelevantRemove(url)

Spec == Init /\ [][Next]_vars

\* The pipeline with time passing and the NAV cursor recorded from outside,
\* the enrichment service unconfigured.
InitSync ==
    /\ Init
    /\ settings = [client |-> FALSE, enable_ai_filter |-> FALSE,
                   enable_summarization |-> FALSE]

NextSync ==
    \/ RunFetch
    \/ ItemCheck
    \/ ItemCreate
    \/ CommitSyncState
    \/ RunReturn
    \/ \E etag \in ETags : RecordScrapeResult("NAV", 0, etag)
    \/ Tick

SpecSync == InitSync /\ [][NextSync]_vars

\* A run after a remembered one, for the same source and with the adapter
\* returning the identical list.
RunFetchAgain ==
    /\ RunFetch
    /\ prev_run # Nothing =>
          /\ pc' = "items"
          /\ src' = Get(prev_run).source
          /\ scraped_jobs' = Get(prev_run).list

\* Runs one after the other on identical upstream data, each remembered for
\* the next, with urls added to the cache in between and none removed.
NextTwice ==
    \/ RunFetchAgain
    \/ ItemCheck
    \/ ItemCreate
    \/ CommitSyncState
    \/ RunReturnRecorded
    \/ \E url \in Urls : IrrelevantAdd(url)

SpecTwice == Init /\ [][NextTwice]_vars

\* The pipeline with the user marking the stored postings.
NextMeta ==
    \/ RunFetch
    \/ ItemCheck
    \/ ItemCreate
    \/ CommitSyncState
    \/ RunReturn
    \/ UpdateJobMetadata
    \/ Tick

SpecMeta == InitSync /\ [][NextMeta]_vars

\* The pipeline with the stored postings updated, marked and swept.
NextStatus ==
    \/ RunFetch
    \/ ItemCheck
    \/ ItemCreate
    \/ CommitSyncState
    \/ RunReturn
    \/ UpdateJobMetadata
    \/ MarkAsInactive
    \/ CleanupInactiveJobs

SpecStatus == InitSync /\ [][NextStatus]_vars

\* The stored postings loaded, marked and swept as time passes, with no run.
NextExpiry ==
    \/ BulkCreate
    \/ MarkAsInactive
    \/ CleanupInactiveJobs
    \/ Tick

SpecExpiry == InitSync /\ [][NextExpiry]_vars

\* A run when no run has committed before: the postings it stores are seen
\* by no later run.
RunFetchOnce ==
    /\ sync_state = {}
    /\ RunFetch

\* One committed run, then time passing and the sweeps.
NextSweep ==
    \/ RunFetchOnce
    \/ ItemCheck
    \/ ItemCreate
    \/ CommitSyncState
    \/ RunReturn
    \/ CleanupInactiveJobs
    \/ Tick

SpecSweep == InitSync /\ [][NextSweep]_vars

\* Every feature of AIService switched on.
InitEnabled ==
    /\ Init
    /\ settings = [client |-> TRUE, enable_ai_filter |-> TRUE,
                   enable_summarization |-> TRUE]

\* The pipeline with the user marking the stored postings and urls put in the
\* cache from outside.
NextAppend ==
    \/ RunFetch
    \/ ItemCheck
    \/ ItemCreate
    \/ CommitSyncState
    \/ RunReturn
    \/ UpdateJobMetadata
    \/ \E url \in Urls : IrrelevantAdd(url)

SpecAppend == InitEnabled /\ [][NextAppend]_vars

\* The pipeline with urls put in the cache and taken out of it from outside.
NextCache ==
    \/ RunFetch
    \/ ItemCheck
    \/ ItemCreate
    \/ CommitSyncState
    \/ RunReturn
    \/ \E url \in Urls : IrrelevantAddRecorded(url)
    \/ \E url \in Urls : IrrelevantRemove(url)

SpecCache == InitEnabled /\ [][NextCache]_vars

\* The runs with sync_state also written from outside, as time passes.
NextCursor ==
    \/ RunFetch
    \/ ItemCheck
    \/ ItemCreate
    \/ CommitSyncState
    \/ RunReturn
    \/ \E source \in Sources, last_sync \in OptionalTimes, etag \in OptionalETags,
          jobs_added \in OptionalCounts :
          UpdateSyncState(source, last_sync, etag, jobs_added)
    \/ \E source \in Sources, etag \in OptionalETags :
          RecordScrapeResult(source, 1, etag)
    \/ Tick

SpecCursor == InitSync /\ [][NextCursor]_vars

\* The runs, any of which may be cut short by the death of the process.
NextCrash ==
    \/ RunFetch
    \/ ItemCheck
    \/ ItemCreate
    \/ CommitSyncState
    \/ RunReturn
    \/ Crash
    \/ Tick

SpecCrash == InitSync /\ [][NextCrash]_vars

\* Runs one at a time, with the cache filled between them.
NextDisjoint ==
    \/ RunFetch
    \/ ItemCheck
    \/ ItemCreate
    \/ CommitSyncState
    \/ RunReturn
    \/ \E url \in Urls : IrrelevantAddFresh(url)

SpecDisjoint == Init /\ [][NextDisjoint]_vars

\* The two adapters, one fetch at a time.
NextScrapers ==
    \/ NavFetchFirst
    \/ NavItem
    \/ NavPageEnd
    \/ NavLoopExit
    \/ FinnStart
    \/ FinnSearch
    \/ FinnDetail
    \/ FinnSearchEnd
    \/ FinnReturn
    \/ ScraperReturns

SpecScrapers == InitSync /\ [][NextScrapers]_vars

\* ----------------------------------------------------------------- claims
InCache(url) == \E i \in DOMAIN irrelevant_jobs : irrelevant_jobs[i] = url
InStore(url) == \E r \in jobs : r.url = url
Processed == DOMAIN outcome
RaisedItems == {i \in Processed : outcome[i] \in Errors}
AddedItems == {i \in Processed : outcome[i] = "added"}
AllProcessed == pc \in {"items", "done"} /\ Len(outcome) = Len(scraped_jobs)
SyncRows(source) == {r \in sync_state : r.source = source}

\* C1: after any sequence of runs (any upstream data, any filter verdicts,
\* items that raise included) the jobs table holds at most one row per url.
C1_OneRowPerUrl ==
    \A r1, r2 \in jobs : r1.url = r2.url => r1 = r2

\* C1 witness: two urls are stored and an insert of the run was refused by the
\* unique index.
C1_Witness ==
    /\ Cardinality(jobs) >= 2
    /\ \E i \in Processed : outcome[i] = "error_unique"

\* This run follows a remembered run for the same source and its adapter
\* returned the identical list.
Again ==
    /\ pc \in {"items", "create", "done"}
    /\ prev_run # Nothing
    /\ Get(prev_run).source = src
    /\ Get(prev_run).list = scraped_jobs

C3_IrrelevantCacheShortCircuit ==
    [][(/\ pc = "items"
        /\ idx <= Len(scraped_jobs)
        /\ InCache(scraped_jobs[idx].url)
        /\ <<pc, idx>>' # <<pc, idx>>)
       => (/\ ai_calls' = ai_calls
           /\ jobs' = jobs
           /\ pc' = "items"
           /\ idx' = idx + 1)]_vars

\* C3 witness: with the filter on, a NAV item that has a description was
\* skipped because its url was in the cache.
C3_Witness ==
    /\ src = "NAV"
    /\ settings.client /\ settings.enable_ai_filter
    /\ outcome # <<>>
    /\ outcome[Len(outcome)] = "cached"
    /\ scraped_jobs[Len(outcome)].description
    /\ ai_calls = {}

\* C4 as claimed: an item the filter rejected is counted as filtered-out, not
\* as an error, and its url is in the Irrelevant-URL Cache.
C4_RejectionRecordedInCache ==
    \A i \in Processed :
        <<"filter_job", i, "reject">> \in ai_calls =>
            (outcome[i] = "rejected" /\ InCache(scraped_jobs[i].url))

\* C5 as claimed: when the items of a run are all processed, every posting
\* that was in neither table when reached and that the filter did not reject
\* is stored and counted in jobs_added. (Items whose insert the database
\* refused are left out of the statement.)
C5_NewAcceptedPostingsAreAdded ==
    AllProcessed =>
        \A i \in Processed :
            (/\ outcome[i] \notin {"cached", "duplicate", "error_db", "error_unique"}
             /\ <<"filter_job", i, "reject">> \notin ai_calls)
            => (outcome[i] = "added" /\ InStore(scraped_jobs[i].url))

\* The fetched urls are pairwise distinct and each was new when reached.
DistinctNewUrls ==
    /\ \A i, j \in DOMAIN scraped_jobs :
          scraped_jobs[i].url = scraped_jobs[j].url => i = j
    /\ \A i \in Processed : outcome[i] \notin {"cached", "duplicate"}

C8_FailedFetchLeavesSyncState ==
    [][(fetch_result = "failed" /\ pc # "done" /\ pc' = "done")
       => (stats.jobs_added = 0 /\ sync_state' = sync_state)]_vars

\* C9 as claimed: a NAV run whose feed answered not-modified processes no
\* item and does not write Sync State.
C9_NotModifiedSkipsCommit ==
    fetch_result = "not_modified" => (outcome = <<>> /\ sync_writes = 0)

\* C9 as amended: a NAV run whose feed answered not-modified processes no
\* item and makes no AIService call; it then writes the NAV Sync State row
\* once, with last_sync the time of the write, jobs_added_last_run 0 and
\* last_etag the token the run read.
C9_NotModifiedCommitsOnce ==
    /\ [](fetch_result = "not_modified" =>
            /\ src = "NAV"
            /\ scraped_jobs = <<>> /\ outcome = <<>> /\ ai_calls = {}
            /\ stats = ZeroStats
            /\ sync_writes = (IF pc = "done" THEN 1 ELSE 0))
    /\ [][(fetch_result = "not_modified" /\ pc # "done" /\ pc' = "done")
          => (/\ Cardinality(SyncRows("NAV")') = 1
              /\ \A r \in SyncRows("NAV")' :
                    /\ r.last_sync = now
                    /\ r.jobs_added_last_run = 0
                    /\ r.last_etag = last_etag)]_vars

\* C9 witness: a not-modified NAV run has ended over a row that recorded one
\* added posting before it.
C9_Witness ==
    /\ pc = "done"
    /\ fetch_result = "not_modified"
    /\ jobs # {}
    /\ \E r \in SyncRows("NAV") : r.jobs_added_last_run = 0

\* C10: after a NAV run whose feed answered not-modified, the stored
\* last_etag is the token stored before the run, and the adapter returned
\* that token with an empty list.
C10_NotModifiedKeepsToken ==
    (src = "NAV" /\ fetch_result = "not_modified") =>
        /\ new_etag = last_etag
        /\ scraped_jobs = <<>>
        /\ \A r \in SyncRows("NAV") : r.last_etag = last_etag
        /\ pc = "done" => SyncRows("NAV") # {}

\* C10 witness: a not-modified NAV run has ended and the token is a real one.
C10_Witness ==
    /\ pc = "done"
    /\ src = "NAV"
    /\ fetch_result = "not_modified"
    /\ last_etag \in ETags
    /\ \E r \in SyncRows("NAV") : r.last_etag = last_etag

\* C11 as claimed: a NAV run whose feed request succeeded with modified
\* content holds a non-null token from the adapter, and once the run has
\* committed, the NAV Sync State row holds that token as last_etag.
C11_ModifiedFeedReturnsToken ==
    (src = "NAV" /\ fetch_result = "ok") =>
        /\ new_etag # None
        /\ pc = "done" => \E r \in SyncRows("NAV") : r.last_etag = new_etag

\* --------------------------------------------------------- C12, C13, C14
FilterOff == ~(settings.client /\ settings.enable_ai_filter)
Last(seq) == seq[Len(seq)]
StoreOutcomes == {"added", "error_db", "error_unique"}

\* C12: with the enrichment service unconfigured or the filter disabled, no
\* filter request reaches the enrichment service, no posting is rejected, a
\* run never writes the Irrelevant-URL Cache, and every NAV posting that is in
\* neither the cache nor the store goes on to job_repo.create, with or
\* without a description.
C12_FailOpenFilterDisabled ==
    /\ [](FilterOff =>
            /\ ai_replies.filter_job = None
            /\ \A c \in ai_calls : c[3] # "reject"
            /\ \A i \in DOMAIN outcome : outcome[i] \notin {"rejected", "error_add"})
    /\ [][(FilterOff /\ pc = "items" /\ ~LoopDone /\ (idx' # idx \/ pc' # pc))
          => (/\ irrelevant_jobs' = irrelevant_jobs
              /\ (/\ src = "NAV"
                  /\ ~InCache(scraped_jobs[idx].url)
                  /\ ~InStore(scraped_jobs[idx].url)) => pc' = "create")]_vars

\* C12 witness: the client is configured and the filter switched off, and a
\* NAV run has stored a posting with a description and one without.
C12_Witness ==
    /\ settings.client /\ ~settings.enable_ai_filter
    /\ pc = "done"
    /\ Len(scraped_jobs) = 2
    /\ \E i, j \in DOMAIN outcome :
          /\ scraped_jobs[i].description /\ ~scraped_jobs[j].description
          /\ outcome[i] = "added" /\ outcome[j] = "added"

\* C13 as claimed: with the filter enabled, a failed filter request (the call
\* raised, or the answer is neither JA nor NEI) is an accept: the posting
\* goes on to job_repo.create and is not handed to the Irrelevant-URL Cache.
C13_FilterFailureAccepts ==
    ai_replies.filter_job \in {"error", "Kanskje"} =>
        \/ pc = "create"
        \/ (outcome # <<>> /\ Last(outcome) \in StoreOutcomes)

\* C14: a failed summary request gives a null summary and does not raise:
\* the posting goes on to job_repo.create with summary null, its item ends
\* only as job_repo.create ends it, the row stored for it has summary null,
\* and storing it adds one to jobs_added and nothing to errors.
C14_SummaryFailureKeepsPosting ==
    /\ [](ai_replies.generate_summary = "error" =>
            /\ pc = "create" => job_summary = None
            /\ pc # "create" =>
                  /\ outcome # <<>> /\ Last(outcome) \in StoreOutcomes
                  /\ <<"generate_summary", Len(outcome), None>> \in ai_calls
                  /\ Last(outcome) = "added" =>
                        \E r \in jobs : /\ r.url = scraped_jobs[Len(outcome)].url
                                        /\ r.summary = None)
    /\ [][(/\ ai_replies.generate_summary = "error"
           /\ pc = "create" /\ pc' = "items" /\ jobs' # jobs)
          => (/\ stats'.jobs_added = stats.jobs_added + 1
              /\ stats'.errors = stats.errors)]_vars

\* C14 witness: a run has ended whose last posting was stored after its
\* summary request failed.
C14_Witness ==
    /\ pc = "done"
    /\ ai_replies.generate_summary = "error"
    /\ Last(outcome) = "added"
    /\ stats.jobs_added >= 1 /\ stats.errors = 0

\* ------------------------------------------------------------- C15 .. C19
NoDuplicateUrls(list) ==
    \A i, j \in DOMAIN list : list[i].url = list[j].url => i = j

\* C15 as claimed: the list either adapter returns holds no url twice.
C15_DedupWithinFetch ==
    /\ finn_pc = "returned" => NoDuplicateUrls(unique_jobs)
    /\ nav_pc = "returned" => NoDuplicateUrls(nav_all_jobs)

\* A feed item whose municipality is not the configured one (by city or by
\* full name) and whose county is not the configured one.
OutsideGeography(item) ==
    /\ item.municipal \notin {<<"Bergen">>, <<"VESTLAND", "BERGEN">>}
    /\ item.county # "Vestland"

\* A pass of the for loop of _process_feed_items.
NavItemStep ==
    /\ nav_pc = "page" /\ NAVWhile
    /\ item_i <= Get(current_feed).items
    /\ item_i' # item_i

\* C16: for a feed item outside the configured geography, the pass of the
\* loop that handles it sends no request to the upstream (fetch_job_entry is
\* not called) and appends nothing to the jobs of the page.
C16_LocationFilterBeforeEntry ==
    /\ [](\A r \in nav_item :
            OutsideGeography(r.item) => (~r.requested /\ ~r.appended))
    /\ [][(NavItemStep /\ OutsideGeography(Get(nav_item').item))
          => (/\ upstream' = upstream
              /\ nav_jobs' = nav_jobs
              /\ nav_all_jobs' = nav_all_jobs
              /\ nav_pc' = "page")]_vars

\* C16 witness: the fetch has returned nothing, and the item it handled last
\* was an active one outside the geography whose entry matches a keyword.
C16_Witness ==
    /\ nav_pc = "returned"
    /\ nav_all_jobs = <<>>
    /\ \E r \in nav_item :
          /\ OutsideGeography(r.item)
          /\ r.item.status = "ACTIVE"
          /\ r.item.entry = "match"

\* C17 as claimed: with request_delay > 0, no two upstream requests of a
\* fetch follow each other without a sleep between them.
C17_RequestsSpaced ==
    request_delay > 0 => ~upstream.unspaced

\* C18 as claimed: a fetch requests at most max_pages feed pages.
C18_PageCap ==
    feed_requests <= max_pages

\* C19 as claimed: an item whose entry could not be fetched, or could not be
\* parsed, is skipped and the fetch goes on: it does not end in an exception.
C19_ItemFailureSkipsOnlyItem ==
    \A r \in nav_item :
        (r.requested /\ r.item.entry \in {"failed", "malformed"}) => nav_pc # "raised"

\* -------------------------------------------------------------------- C20
\* C20: every stored posting has applied true exactly when applied_date is
\* set; and in every state, for every posting, update_job_metadata with
\* applied=true leaves it applied with applied_date the time of the call,
\* with applied=false leaves it not applied with applied_date null, and
\* without applied leaves both fields as they were.
C20_AppliedDateInvariant ==
    /\ \A r \in jobs : r.applied <=> (r.applied_date # Nothing)
    /\ \A r \in jobs, is_favorite \in OptionalBool :
          LET row(applied) ==
                  CHOOSE q \in JobRepository_update_job_metadata(
                                   r.id, is_favorite, applied) : q.id = r.id
          IN  /\ row(Some(TRUE)).applied
              /\ row(Some(TRUE)).applied_date = Some(now)
              /\ ~row(Some(FALSE)).applied
              /\ row(Some(FALSE)).applied_date = Nothing
              /\ row(Nothing).applied = r.applied
              /\ row(Nothing).applied_date = r.applied_date

\* C20 witness: one posting was marked applied at an earlier time, and
\* another, not applied, was marked as a favorite.
C20_Witness ==
    \E r, q \in jobs :
        /\ r.applied /\ r.applied_date = Some(0) /\ now = 1
        /\ q.is_favorite /\ ~q.applied /\ q.applied_date = Nothing

\* ------------------------------------------------------------------- C21
\* C21: the status of a stored posting only ever changes from ACTIVE to
\* INACTIVE or from ACTIVE to EXPIRED, whatever runs, sweeps, markings and
\* metadata updates happen; a posting that is INACTIVE or EXPIRED keeps its
\* status.
C21_StatusMonotone ==
    [][\A r \in jobs : \A q \in jobs' :
          (q.id = r.id /\ q.status # r.status) =>
              /\ r.status = "ACTIVE"
              /\ q.status \in {"INACTIVE", "EXPIRED"}]_vars

\* A posting that is inactive while a sweep or a marking could touch it again.
C21_Witness ==
    /\ \E r \in jobs : r.status = "INACTIVE"
    /\ \E r \in jobs : r.status = "ACTIVE"
    /\ last_call.op = "cleanup_inactive_jobs"

\* ------------------------------------------------------------------- C22
\* The row of the posting r after the step.
After(r) == CHOOSE q \in jobs' : q.id = r.id

\* C22: one call of cleanup_inactive_jobs leaves every posting that was
\* ACTIVE with an expire_date in the past INACTIVE, and leaves untouched
\* every ACTIVE posting whose expire_date is in the future and that is not
\* stale.
C22_ExpirySweep ==
    [][CleanupInactiveJobs =>
          \A r \in jobs :
             r.status = "ACTIVE" /\ r.expire_date # Nothing =>
                /\ Get(r.expire_date) < now => After(r).status = "INACTIVE"
                /\ (/\ Get(r.expire_date) > now
                    /\ r \notin StaleJobs(now - last_call'.days_threshold))
                   => After(r) = r]_vars

\* ------------------------------------------------------------------- C23
\* C23: a posting that a run created and that no run has observed again for
\* more than days_threshold days is marked INACTIVE by the next call of
\* cleanup_inactive_jobs(days_threshold); the call is made after the run
\* that created the posting has returned.
C23_StalenessSweep ==
    [][CleanupInactiveJobs /\ pc = "idle" =>
          \A r \in jobs :
             (/\ r.status = "ACTIVE"
              /\ now - r.scraped_date > last_call'.days_threshold)
             => After(r).status = "INACTIVE"]_vars

\* ------------------------------------------------------------------- C24
\* The run passes over the item at idx.
ItemStep ==
    /\ pc = "items"
    /\ idx <= Len(scraped_jobs)
    /\ <<pc, idx>>' # <<pc, idx>>

C25_ConflictCountedAsDuplicate ==
    [][(/\ pc = "create"
        /\ UniqueViolation(scraped_jobs[idx].url)
        /\ pc' = "items")
       => (/\ stats' = Bump(stats, "jobs_duplicate")
           /\ idx' = idx + 1
           /\ jobs' = jobs)]_vars

\* ------------------------------------------------------------------- C26
\* C26: after any sequence of add and remove the Irrelevant-URL Cache holds
\* at most one entry per url; an add of a url that is present returns the
\* entry that was there and leaves the number of entries unchanged.
C26_OneEntryPerUrl ==
    /\ [](\A i, j \in DOMAIN irrelevant_jobs :
             irrelevant_jobs[i] = irrelevant_jobs[j] => i = j)
    /\ [][\A url \in Urls :
             (IrrelevantAddRecorded(url) /\ InCache(url)) =>
                /\ Len(irrelevant_jobs') = Len(irrelevant_jobs)
                /\ irrelevant_jobs' = irrelevant_jobs
                /\ last_call'.returned = url]_vars

\* C26 witness: a url was added while it was the one entry of the cache.
C26_Witness ==
    /\ last_call.op = "add"
    /\ last_call.existing
    /\ Len(irrelevant_jobs) = 1
    /\ irrelevant_jobs[1] = last_call.url
    /\ last_call.url = 2

\* ------------------------------------------------------------------- C27
\* What update_sync_state(source, last_sync, etag, jobs_added) must leave.
Overwritten(source, last_sync, etag, jobs_added) ==
    /\ \E q \in sync_state' :
          /\ SyncRows(source)' = {q}
          /\ \A row \in SyncRows(source) :
                /\ q.last_sync = IF last_sync # Nothing THEN Get(last_sync)
                                 ELSE row.last_sync
                /\ q.last_etag = IF etag # None THEN etag ELSE row.last_etag
                /\ q.jobs_added_last_run = IF jobs_added # Nothing THEN Get(jobs_added)
                                           ELSE row.jobs_added_last_run
    /\ \A other \in Sources \ {source} : SyncRows(other)' = SyncRows(other)

\* C27: whatever calls of update_sync_state and record_scrape_result are
\* made, sync_state holds one row for each source updated at least once: a
\* call leaves exactly one row for its source, a call for a source that has a
\* row overwrites the fields it was given in that row, there is never more
\* than one row for a source, and no row is ever deleted.
C27_OneRowPerSource ==
    /\ [](\A source \in Sources : Cardinality(SyncRows(source)) <= 1)
    /\ [][/\ \A source \in Sources :
                SyncRows(source) # {} => SyncRows(source)' # {}
          /\ \A source \in Sources, last_sync \in OptionalTimes,
                etag \in OptionalETags, jobs_added \in OptionalCounts :
                UpdateSyncState(source, last_sync, etag, jobs_added)
                => Overwritten(source, last_sync, etag, jobs_added)
          /\ \A source \in Sources, etag \in OptionalETags :
                RecordScrapeResult(source, 1, etag)
                => Overwritten(source, Some(now), etag, Some(1))
          /\ CommitSyncState =>
                Overwritten(src, Some(now), IF src = "NAV" THEN new_etag ELSE None,
                            Some(stats.jobs_added))]_vars

\* C27 witness: both sources have their row, and a NAV run that read its
\* token from the row of NAV has overwritten that row with its own count.
C27_Witness ==
    /\ \A source \in Sources : Cardinality(SyncRows(source)) = 1
    /\ pc = "done"
    /\ src = "NAV"
    /\ last_etag \in ETags
    /\ sync_writes = 1
    /\ stats.jobs_added = 1
    /\ \E r \in SyncRows("NAV") :
          /\ r.last_sync = MaxTime
          /\ r.last_etag = last_etag
          /\ r.jobs_added_last_run = 1

\* ------------------------------------------------------------------- C28
\* C28: what a crash in the middle of a run leaves in the tables is either
\* the state before the run or every posting the run inserted together with
\* the run's write of sync_state: never postings the run inserted beside a
\* sync_state row the run has not written.
C28_RunAtomicUnderCrash ==
    [][Crash => (last_call'.added = {} \/ last_call'.sync_writes = 1)]_vars

\* ------------------------------------------------------------------- C29
\* C29: when a run returns its statistics, jobs_scraped is the sum of
\* jobs_added, jobs_filtered, jobs_duplicate and errors; jobs_added is the
\* number of rows the run added to the jobs table, step by step, and is the
\* jobs_added_last_run the run wrote to sync_state.
C29_StatisticsAccounting ==
    /\ [](pc = "done" =>
             /\ stats.jobs_scraped = stats.jobs_added + stats.jobs_filtered
                                     + stats.jobs_duplicate + stats.errors
             /\ stats.jobs_scraped = Len(scraped_jobs)
             /\ stats.jobs_added = Cardinality(AddedItems)
             /\ SyncRows(src) # {}
             /\ \A r \in SyncRows(src) : r.jobs_added_last_run = stats.jobs_added)
    /\ [][(pc \in {"items", "create"} /\ <<pc, idx>>' # <<pc, idx>>) =>
             /\ jobs \subseteq jobs'
             /\ Cardinality(jobs' \ jobs) = stats'.jobs_added - stats.jobs_added]_vars

\* C29 witness: a run over two items has returned, one posting added and one
\* item that raised.
C29_Witness ==
    /\ pc = "done"
    /\ stats.jobs_scraped = 2
    /\ stats.jobs_added = 1
    /\ stats.errors = 1
    /\ Cardinality(AddedItems) = 1

\* ------------------------------------------------------------------- C30
\* C30: with runs one at a time, from a state where no url is both in the
\* cache and stored, no url ever is in both; a run stores a url only after
\* its checks found the url absent from the cache, and a run adds a url to
\* the cache only after its check found the url not stored.
C30_CacheAndStoreDisjoint ==
    /\ [](\A url \in Urls : ~(InCache(url) /\ InStore(url)))
    /\ [][/\ jobs' # jobs =>
                /\ pc = "create"
                /\ \A r \in jobs' \ jobs : r.url = scraped_jobs[idx].url /\ ~InCache(r.url)
          /\ (irrelevant_jobs' # irrelevant_jobs /\ pc # "idle") =>
                /\ pc = "items"
                /\ ~InStore(scraped_jobs[idx].url)
                /\ irrelevant_jobs' = Append(irrelevant_jobs, scraped_jobs[idx].url)]_vars

\* C30 witness: one run passed over an item whose url was in the cache and
\* stored another item after the filter accepted it.
C30_Witness ==
    /\ \E i, j \in Processed : outcome[i] = "cached" /\ outcome[j] = "added"
    /\ ai_calls # {}
    /\ irrelevant_jobs # <<>>
    /\ jobs # {}
====
